---- MODULE Spec2Model ----
(***************************************************************************)
(* RabbitMQManager (applications/fast-api/rabbitmq-pubsub/rabbitmq.py):    *)
(* one manager holding one connection and one channel, the broker          *)
(* topology it declares, publish_message, and the consume_messages loop.   *)
(* The broker and the aio_pika client are modelled by their documented     *)
(* AMQP 0-9-1 behaviour at the places where the manager calls them.        *)
(***************************************************************************)
EXTENDS Integers, Sequences, FiniteSets, TLC

\* ---------------------------------------------------------------- bounds
\* Number of messages ever put into the broker (publish_message or another
\* producer).
MaxMsgs == 2
\* connections one manager may hold open at a time before connect() is no
\* longer called
MaxConnects == 2

\* ------------------------------------------------------ program constants
\* channel.set_qos(prefetch_count=1)
PrefetchCount == 1

\* exchange_type: ExchangeType = ExchangeType.TOPIC ; durable: bool = True
DefaultExchangeType == "topic"
DefaultDurable == TRUE

ExchangeNames == {"books", "notifications"}
ExchangeTypes == {"topic", "fanout"}
Queues == {"all_books_queue", "book_created_queue", "notifications_queue_1"}
\* the queue the manager's calls are made on when they are taken one by one
ConsumerQueues == {"all_books_queue"}
\* SUBSCRIBERS: the entries of the three queues
Subscribers ==
    {[queue |-> "book_created_queue", exchange |-> "books",
      routing_key |-> <<"book", "created">>],
     [queue |-> "all_books_queue", exchange |-> "books",
      routing_key |-> <<"book", "*">>],
     [queue |-> "notifications_queue_1", exchange |-> "notifications",
      routing_key |-> <<>>]}
\* the exchanges main() declares, with their types
MainExchanges == [books |-> "topic", notifications |-> "fanout"]
\* routing keys are dot-separated; a key is the sequence of its segments and
\* the empty string is the empty sequence
RoutingKeys == {<<"book", "created">>, <<>>}
BindingKeys == {<<"book", "*">>}

MsgIds == 1..MaxMsgs
NoExchange == [type |-> "absent", durable |-> FALSE]
NoRet ==
    [op |-> "none", err |-> "none", handed |-> 0, exchange |-> "", declares |-> 0]

VARIABLES
    connection,   \* self.connection: "none" | "open" | "closed"
    channel,      \* self.channel: "none" | "open" | "broken" | "closed"
    qos,          \* prefetch limit of the channel, 0 = unlimited
    opened,       \* connections and channels the manager opened and nobody
                  \* closed: [connections, channels]
    exchanges,    \* broker: exchange name -> [type, durable]
    queues,       \* broker: declared queue names
    bindings,     \* broker: set of <<queue, exchange, binding key>>
    store,        \* every message the broker took: id -> [body]
    ready,        \* broker: queue -> sequence of message ids waiting
    unacked,      \* broker: queue -> ids dispatched to the consumer, unsettled
    consumers,    \* broker: queues with a registered consumer on the channel
    pc,           \* the task of each queue: "idle" | "waiting" | "callback" |
                  \* "raised" | "cancelled" | "ended" (consume_messages), and
                  \* the steps of start_subscriber before it
    autoAck,      \* the auto_ack argument of the loop
    inbox,        \* queue iterator's buffer: dispatched, not yet yielded
    cur,          \* the delivery inside "async with message.process"
    curLive,      \* whether cur's channel is still the one that delivered it
    recv,         \* queue -> id -> times the loop received the message
    outc,         \* queue -> id -> outcomes the loop applied (ack/reject/requeue)
    cb,           \* queue -> id -> callback status of the last delivery
    ret           \* how the manager call of the last step ended, if it was one

vars == <<connection, channel, qos, opened, exchanges, queues, bindings, store, ready,
          unacked, consumers, pc, autoAck, inbox, cur, curLive, recv, outc,
          cb, ret>>

topology == <<exchanges, queues, bindings>>
brokerq == <<store, ready, unacked, consumers>>
loops == <<pc, autoAck, inbox, cur, curLive, recv, outc, cb>>

\* ---------------------------------------------------------------- helpers
RECURSIVE SortedSeq(_)
SortedSeq(S) ==
    IF S = {} THEN <<>>
    ELSE LET m == CHOOSE x \in S : \A y \in S : x <= y
         IN <<m>> \o SortedSeq(S \ {m})

SeqSet(s) == {s[i] : i \in 1..Len(s)}

\* a "*" that takes any number of segments
RECURSIVE TopicMatchStarAny(_, _)
TopicMatchStarAny(pat, key) ==
    IF pat = <<>> THEN key = <<>>
    ELSE IF Head(pat) \in {"#", "*"}
         THEN TopicMatchStarAny(Tail(pat), key)
              \/ (key # <<>> /\ TopicMatchStarAny(pat, Tail(key)))
    ELSE IF key = <<>> THEN FALSE
    ELSE Head(pat) = Head(key) /\ TopicMatchStarAny(Tail(pat), Tail(key))

\* AMQP topic matching: "*" is exactly one segment, "#" is zero or more.
RECURSIVE TopicMatch(_, _)
TopicMatch(pat, key) ==
    IF pat = <<>> THEN key = <<>>
    ELSE IF Head(pat) = "#"
         THEN TopicMatch(Tail(pat), key)
              \/ (key # <<>> /\ TopicMatch(pat, Tail(key)))
    ELSE IF key = <<>> THEN FALSE
    ELSE (Head(pat) = "*" \/ Head(pat) = Head(key))
         /\ TopicMatch(Tail(pat), Tail(key))

\* queues an exchange forwards a message with this routing key to
Route(n, key) ==
    {q \in Queues : \E b \in bindings :
        /\ b[1] = q /\ b[2] = n
        /\ \/ exchanges[n].type = "fanout"
           \/ exchanges[n].type = "topic" /\ TopicMatch(b[3], key)}

\* err is "ok" when the call returned and the error it raised otherwise
Ret(op, err) == [NoRet EXCEPT !.op = op, !.err = err]

Init ==
    /\ connection = "none"
    /\ channel = "none"
    /\ qos = 0
    /\ opened = [connections |-> 0, channels |-> 0]
    /\ exchanges = [n \in ExchangeNames |-> NoExchange]
    /\ queues = {}
    /\ bindings = {}
    /\ store = <<>>
    /\ ready = [q \in Queues |-> <<>>]
    /\ unacked = [q \in Queues |-> {}]
    /\ consumers = {}
    /\ pc = [q \in Queues |-> "idle"]
    /\ autoAck = [q \in Queues |-> FALSE]
    /\ inbox = [q \in Queues |-> <<>>]
    /\ cur = [q \in Queues |-> 0]
    /\ curLive = [q \in Queues |-> FALSE]
    /\ recv = [q \in Queues |-> [m \in MsgIds |-> 0]]
    /\ outc = [q \in Queues |-> [m \in MsgIds |-> <<>>]]
    /\ cb = [q \in Queues |-> [m \in MsgIds |-> "none"]]
    /\ ret = NoRet

\* ------------------------------------------------------------- connection
\* connect(): connect_robust, connection.channel(), set_qos(prefetch_count=1).
\* The programs call it once, at startup, on a fresh manager.
\* a connect() that leaves out the set_qos call
connect_without_qos(reachable) ==
    /\ connection = "none"
    /\ IF reachable
       THEN /\ connection' = "open"
            /\ channel' = "open"
            /\ qos' = 0
            /\ opened' = [connections |-> opened.connections + 1,
                           channels |-> opened.channels + 1]
            /\ ret' = Ret("connect", "ok")
       ELSE /\ UNCHANGED <<connection, channel, qos, opened>>
            /\ ret' = Ret("connect", "ConnectionError")
    /\ UNCHANGED <<topology, brokerq, loops>>

connect(reachable) ==
    /\ connection = "none"
    /\ IF reachable
       THEN /\ connection' = "open"
            /\ channel' = "open"
            /\ qos' = PrefetchCount
            /\ opened' = [connections |-> opened.connections + 1,
                           channels |-> opened.channels + 1]
            /\ ret' = Ret("connect", "ok")
       ELSE /\ UNCHANGED <<connection, channel, qos, opened>>
            /\ ret' = Ret("connect", "ConnectionError")
    /\ UNCHANGED <<topology, brokerq, loops>>

\* What the broker and the client do when the channel goes away (closed by
\* the client, closed by the broker on a channel error, or the transport
\* dropped): every unsettled delivery of the channel returns to the front of
\* its queue, the consumers are gone, the iterators' buffers are dropped and
\* the delivery a loop is working on can no longer be settled.
RequeueAll(rdy) == [q \in Queues |-> SortedSeq(unacked[q]) \o rdy[q]]

ChannelDown ==
    /\ ready' = RequeueAll(ready)
    /\ unacked' = [q \in Queues |-> {}]
    /\ consumers' = {}
    /\ inbox' = [q \in Queues |-> <<>>]
    /\ curLive' = [q \in Queues |-> FALSE]

\* what is left open once self.channel and self.connection are closed
AfterClose ==
    [connections |-> opened.connections - (IF connection = "open" THEN 1 ELSE 0),
     channels |-> opened.channels
                  - (IF channel \in {"open", "broken"} THEN 1 ELSE 0)]

\* a disconnect() without the "if self.channel" / "if self.connection" tests:
\* on a manager that never connected it calls close() on None
disconnect_unguarded ==
    /\ channel' = IF channel = "none" THEN "none" ELSE "closed"
    /\ connection' = IF connection = "none" THEN "none" ELSE "closed"
    /\ IF channel \in {"open", "broken"}
       THEN ChannelDown
       ELSE UNCHANGED <<ready, unacked, consumers, inbox, curLive>>
    /\ ret' = Ret("disconnect", IF channel = "none" THEN "AttributeError" ELSE "ok")
    /\ opened' = AfterClose
    /\ UNCHANGED <<qos, topology, store, pc, autoAck, cur, recv, outc, cb>>

\* disconnect(): if self.channel: close it; if self.connection: close it.
disconnect ==
    /\ channel' = IF channel = "none" THEN "none" ELSE "closed"
    /\ connection' = IF connection = "none" THEN "none" ELSE "closed"
    /\ IF channel \in {"open", "broken"}
       THEN ChannelDown
       ELSE UNCHANGED <<ready, unacked, consumers, inbox, curLive>>
    /\ ret' = Ret("disconnect", "ok")
    /\ opened' = AfterClose
    /\ UNCHANGED <<qos, topology, store, pc, autoAck, cur, recv, outc, cb>>

\* a connection that is not robust (aio_pika.connect): after a drop the
\* channel stays closed
channel_stays_down ==
    /\ channel = "broken"
    /\ connection = "open"
    /\ channel' = "closed"
    /\ ret' = NoRet
    /\ UNCHANGED <<connection, qos, opened, topology, brokerq, loops>>

\* a reconnection that close() does not stop: the connection and the channel
\* come back after disconnect()
channel_restore_after_close ==
    /\ channel \in {"broken", "closed"}
    /\ connection \in {"open", "closed"}
    /\ channel' = "open"
    /\ connection' = "open"
    /\ consumers' = {q \in Queues : pc[q] \in {"waiting", "callback"}}
    /\ ret' = NoRet
    /\ UNCHANGED <<qos, opened, topology, store, ready, unacked, loops>>

\* The robust channel reopens itself after the broker closed it or the
\* transport dropped, and registers again the consumers of the loops that
\* are still running.
channel_restore ==
    /\ channel = "broken"
    /\ connection = "open"
    /\ channel' = "open"
    /\ consumers' = {q \in Queues : pc[q] \in {"waiting", "callback"}}
    /\ ret' = NoRet
    /\ UNCHANGED <<connection, qos, opened, topology, store, ready, unacked, loops>>

\* ---------------------------------------------------------------- topology
\* a declaration that fails whenever the name exists, equal or not
DeclareStatusExclusive(n, t, d) ==
    IF channel = "none" THEN "AttributeError"
    ELSE IF channel = "closed" THEN "ChannelInvalidStateError"
    ELSE IF exchanges[n] = NoExchange THEN "ok"
    ELSE "TopologyConflict"

\* What channel.declare_exchange(name, type, durable=durable) answers: an
\* AttributeError on a manager that never connected (self.channel is None),
\* an error on a closed channel, the handle when the exchange is absent or
\* equal, and the broker's PRECONDITION_FAILED channel error when the name
\* exists with other parameters.
DeclareStatus(n, t, d) ==
    IF channel = "none" THEN "AttributeError"
    ELSE IF channel = "closed" THEN "ChannelInvalidStateError"
    ELSE IF exchanges[n] = NoExchange
            \/ exchanges[n] = [type |-> t, durable |-> d] THEN "ok"
    ELSE "TopologyConflict"

Declared(n, t, d) == [exchanges EXCEPT ![n] = [type |-> t, durable |-> d]]

\* declare_exchange(exchange_name, exchange_type, durable): the declaration's
\* answer goes to the caller as it is.
declare_exchange(n, t, d) ==
    /\ channel # "broken"
    /\ LET st == DeclareStatus(n, t, d)
       IN /\ ret' = Ret("declare_exchange", st)
          /\ exchanges' = IF st = "ok" THEN Declared(n, t, d) ELSE exchanges
          /\ IF st = "TopologyConflict"
             THEN channel' = "broken" /\ ChannelDown
             ELSE UNCHANGED <<channel, ready, unacked, consumers, inbox, curLive>>
    /\ UNCHANGED <<connection, qos, opened, queues, bindings, store, pc, autoAck, cur,
                   recv, outc, cb>>

QueueStatus ==
    IF channel = "none" THEN "AttributeError"
    ELSE IF channel = "closed" THEN "ChannelInvalidStateError"
    ELSE "ok"

\* declare_queue(queue_name), with the default flags every caller uses
declare_queue(q) ==
    /\ channel # "broken"
    /\ LET st == QueueStatus
       IN /\ ret' = Ret("declare_queue", st)
          /\ queues' = IF st = "ok" THEN queues \cup {q} ELSE queues
    /\ UNCHANGED <<connection, channel, qos, opened, exchanges, bindings, brokerq, loops>>

\* bind_queue(queue_name, exchange_name, routing_key): declare_queue, then
\* declare_exchange(exchange_name) with the default type and durability, then
\* queue.bind. An error of a step ends the call and reaches the caller.
\* a bind_queue that catches the error of the exchange declaration and binds
\* anyway
bind_queue_swallows(q, n, key) ==
    /\ channel # "broken"
    /\ LET qs == QueueStatus
           st == IF qs # "ok" THEN qs
                 ELSE DeclareStatus(n, DefaultExchangeType, DefaultDurable)
       IN /\ ret' = Ret("bind_queue", IF st = "TopologyConflict" THEN "ok" ELSE st)
          /\ queues' = IF qs = "ok" THEN queues \cup {q} ELSE queues
          /\ exchanges' = IF st = "ok"
                          THEN Declared(n, DefaultExchangeType, DefaultDurable)
                          ELSE exchanges
          /\ bindings' = IF st \in {"ok", "TopologyConflict"}
                         THEN bindings \cup {<<q, n, key>>} ELSE bindings
          /\ UNCHANGED <<channel, ready, unacked, consumers, inbox, curLive>>
    /\ UNCHANGED <<connection, qos, opened, store, pc, autoAck, cur, recv, outc, cb>>

\* a bind_queue whose queue.bind fails when the binding is there already
bind_queue_once(q, n, key) ==
    /\ channel # "broken"
    /\ LET qs == QueueStatus
           ds == IF qs # "ok" THEN qs
                 ELSE DeclareStatus(n, DefaultExchangeType, DefaultDurable)
           st == IF ds = "ok" /\ <<q, n, key>> \in bindings THEN "AlreadyBound"
                 ELSE ds
       IN /\ ret' = Ret("bind_queue", st)
          /\ queues' = IF qs = "ok" THEN queues \cup {q} ELSE queues
          /\ exchanges' = IF ds = "ok"
                          THEN Declared(n, DefaultExchangeType, DefaultDurable)
                          ELSE exchanges
          /\ bindings' = IF st = "ok" THEN bindings \cup {<<q, n, key>>}
                         ELSE bindings
          /\ IF st = "TopologyConflict"
             THEN channel' = "broken" /\ ChannelDown
             ELSE UNCHANGED <<channel, ready, unacked, consumers, inbox, curLive>>
    /\ UNCHANGED <<connection, qos, opened, store, pc, autoAck, cur, recv, outc, cb>>

bind_queue(q, n, key) ==
    /\ channel # "broken"
    /\ LET qs == QueueStatus
           st == IF qs # "ok" THEN qs
                 ELSE DeclareStatus(n, DefaultExchangeType, DefaultDurable)
       IN /\ ret' = Ret("bind_queue", st)
          /\ queues' = IF qs = "ok" THEN queues \cup {q} ELSE queues
          /\ exchanges' = IF st = "ok"
                          THEN Declared(n, DefaultExchangeType, DefaultDurable)
                          ELSE exchanges
          /\ bindings' = IF st = "ok" THEN bindings \cup {<<q, n, key>>}
                         ELSE bindings
          /\ IF st = "TopologyConflict"
             THEN channel' = "broken" /\ ChannelDown
             ELSE UNCHANGED <<channel, ready, unacked, consumers, inbox, curLive>>
    /\ UNCHANGED <<connection, qos, opened, store, pc, autoAck, cur, recv, outc, cb>>

\* ----------------------------------------------------------------- publish
\* What can happen to exchange.publish on an open channel with publisher
\* confirms: the broker confirms; the broker refuses (basic.nack); the
\* transport drops before the frame reached the broker; the transport drops
\* after the broker took the message and before its confirm arrived.
NetOutcomes == {"confirm", "nack", "drop_before", "drop_after"}

\* copies of the message the broker took in one exchange.publish
Handed(net) == IF net \in {"confirm", "drop_after"} THEN 1 ELSE 0

\* an exchange.publish that takes the broker's refusal for a success
PublishErrorSwallowed(net) ==
    IF net \in {"confirm", "nack"} THEN "ok" ELSE "ConnectionLost"

\* how exchange.publish ends for the caller: only a confirm lets
\* publish_message reach "return True"
PublishError(net) ==
    IF net = "confirm" THEN "ok"
    ELSE IF net = "nack" THEN "DeliveryError"
    ELSE "ConnectionLost"

Routed(rdy, n, key, id) ==
    [q \in Queues |-> IF q \in Route(n, key) THEN Append(rdy[q], id) ELSE rdy[q]]

\* exchange declarations a call sent to the broker, given the answer to its
\* declare_exchange: none when the call failed before the channel was used
Declares(st) == IF st \in {"AttributeError", "ChannelInvalidStateError"} THEN 0 ELSE 1

\* publish_message(exchange_name, routing_key, message_body): declares the
\* exchange with the default type and durability, serializes the body with
\* json.dumps, publishes once and returns True. Nothing is caught.
publish_message(n, key, serializable, net) ==
    /\ channel # "broken"
    /\ Len(store) < MaxMsgs
    /\ LET st == DeclareStatus(n, DefaultExchangeType, DefaultDurable)
           err == IF st # "ok" THEN st
                  ELSE IF ~serializable THEN "TypeError"
                  ELSE PublishError(net)
           sent == st = "ok" /\ serializable
           handed == IF sent THEN Handed(net) ELSE 0
           dropped == sent /\ net \in {"drop_before", "drop_after"}
           id == Len(store) + 1
           rdy == IF handed = 1 THEN Routed(ready, n, key, id) ELSE ready
       IN /\ ret' = [Ret("publish_message", err) EXCEPT
                        !.handed = handed, !.exchange = n,
                        !.declares = Declares(st)]
          /\ exchanges' = IF st = "ok"
                          THEN Declared(n, DefaultExchangeType, DefaultDurable)
                          ELSE exchanges
          /\ store' = IF handed = 1
                      THEN Append(store, [body |-> "json"])
                      ELSE store
          /\ IF st = "TopologyConflict" \/ dropped
             THEN /\ channel' = "broken"
                  /\ ready' = RequeueAll(rdy)
                  /\ unacked' = [q \in Queues |-> {}]
                  /\ consumers' = {}
                  /\ inbox' = [q \in Queues |-> <<>>]
                  /\ curLive' = [q \in Queues |-> FALSE]
             ELSE /\ ready' = rdy
                  /\ UNCHANGED <<channel, unacked, consumers, inbox, curLive>>
    /\ UNCHANGED <<connection, qos, opened, queues, bindings, pc, autoAck, cur, recv,
                   outc, cb>>

\* Another producer puts a message that is not JSON into a queue (through
\* the default exchange); the loop's json.loads is what meets it.
foreign_publish(q) ==
    /\ q \in queues
    /\ Len(store) < MaxMsgs
    /\ store' = Append(store, [body |-> "bad"])
    /\ ready' = [ready EXCEPT ![q] = Append(@, Len(store) + 1)]
    /\ ret' = NoRet
    /\ UNCHANGED <<connection, channel, qos, opened, topology, unacked, consumers,
                   loops>>

\* ----------------------------------------------------------------- consume
\* consume_messages(queue_name, callback, auto_ack): declare_queue, then the
\* queue iterator registers a consumer (no_ack is not passed: the broker
\* waits for an acknowledgment of every delivery).
consume_messages(q, aa) ==
    /\ pc[q] \in {"idle", "bound"}
    /\ channel # "broken"
    /\ IF QueueStatus = "ok"
       THEN /\ queues' = queues \cup {q}
            /\ consumers' = consumers \cup {q}
            /\ pc' = [pc EXCEPT ![q] = "waiting"]
            /\ autoAck' = [autoAck EXCEPT ![q] = aa]
       ELSE /\ pc' = [pc EXCEPT ![q] = "raised"]
            /\ UNCHANGED <<queues, consumers, autoAck>>
    /\ ret' = NoRet
    /\ UNCHANGED <<connection, channel, qos, opened, exchanges, bindings, store, ready,
                   unacked, inbox, cur, curLive, recv, outc, cb>>

\* unsettled deliveries of all the consumers of the channel
RECURSIVE ChannelUnacked(_)
ChannelUnacked(Q) ==
    IF Q = {} THEN 0
    ELSE LET q == CHOOSE x \in Q : TRUE
         IN Cardinality(unacked[q]) + ChannelUnacked(Q \ {q})

\* a broker that counts the prefetch limit over the whole channel, all its
\* consumers together
broker_dispatch_channel_window(q) ==
    /\ q \in consumers
    /\ channel = "open"
    /\ ready[q] # <<>>
    /\ qos = 0 \/ ChannelUnacked(Queues) < qos
    /\ LET m == Head(ready[q])
       IN /\ ready' = [ready EXCEPT ![q] = Tail(@)]
          /\ unacked' = [unacked EXCEPT ![q] = @ \cup {m}]
          /\ inbox' = [inbox EXCEPT ![q] = Append(@, m)]
    /\ ret' = NoRet
    /\ UNCHANGED <<connection, channel, qos, opened, topology, store, consumers, pc,
                   autoAck, cur, curLive, recv, outc, cb>>

\* The broker sends the head of the queue to the queue's consumer while the
\* consumer holds fewer unsettled deliveries than the prefetch limit.
broker_dispatch(q) ==
    /\ q \in consumers
    /\ channel = "open"
    /\ ready[q] # <<>>
    /\ qos = 0 \/ Cardinality(unacked[q]) < qos
    /\ LET m == Head(ready[q])
       IN /\ ready' = [ready EXCEPT ![q] = Tail(@)]
          /\ unacked' = [unacked EXCEPT ![q] = @ \cup {m}]
          /\ inbox' = [inbox EXCEPT ![q] = Append(@, m)]
    /\ ret' = NoRet
    /\ UNCHANGED <<connection, channel, qos, opened, topology, store, consumers, pc,
                   autoAck, cur, curLive, recv, outc, cb>>

\* a loop body whose except clause does not catch the callback's failure
EscapesUncaught(event) == event \in {"cancelled", "fail"}

\* a loop body that decodes the body before the try block
EscapesDecode(event) == event \in {"cancelled", "decode"}

\* What leaves the try block of the loop body: "except Exception" catches a
\* failure of json.loads and a failure of the callback; a cancellation of the
\* task is no Exception and passes through.
Escapes(event) == event = "cancelled"

\* a process block that gives the delivery back to the queue when it is left
\* without an exception
ProcessExitRequeues(escaped, ignore_processed, processed) ==
    IF ignore_processed /\ processed THEN "none"
    ELSE IF escaped THEN "reject"
    ELSE "requeue"

\* message.process(ignore_processed=...) on leaving the block: nothing when
\* the message was already settled by hand and ignore_processed is set;
\* otherwise ack when no exception leaves the block and reject (requeue is
\* False by default) when one does.
ProcessExit(escaped, ignore_processed, processed) ==
    IF ignore_processed /\ processed THEN "none"
    ELSE IF escaped THEN "reject"
    ELSE "ack"

\* a loop that gives a delivery back to the queue when its callback raised
\* (the commented-out "reject(requeue=True)" of the except clause)
LoopOutcomeRequeues(event, aa) ==
    IF event = "fail" THEN "requeue"
    ELSE ProcessExit(Escapes(event), aa, FALSE)

\* The callback is handed the decoded body only, never the message, so the
\* message is never settled by hand inside the block.
LoopOutcome(event, aa) == ProcessExit(Escapes(event), aa, FALSE)

SettleUnacked(u, q, m, o) ==
    IF o = "none" THEN u ELSE [u EXCEPT ![q] = @ \ {m}]

SettleOutc(q, m, o) ==
    IF o = "none" THEN outc ELSE [outc EXCEPT ![q][m] = Append(@, o)]

\* Leaving "async with message.process(...)" for delivery m of queue q after
\* `event` ("ok": the callback returned, "fail": it raised an Exception,
\* "decode": json.loads raised, "cancelled": the task was cancelled), with
\* ib what the iterator still buffers. The outcome is sent on the channel
\* that delivered m; when that channel is gone (live is FALSE) settling
\* raises and nothing is applied. An exception that leaves the block leaves
\* consume_messages through "async with queue.iterator()", which cancels the
\* consumer and gives back what the iterator buffers; otherwise the loop
\* waits for the next delivery.
LeaveBlock(q, m, event, live, ib) ==
    LET o == LoopOutcome(event, autoAck[q])
        settleFails == o # "none" /\ ~live
        applied == IF settleFails THEN "none" ELSE o
        leaves == Escapes(event) \/ settleFails
        u == SettleUnacked(unacked, q, m, applied)
        back == IF applied = "requeue" THEN <<m>> ELSE <<>>
    IN /\ cb' = [cb EXCEPT ![q][m] = event]
       /\ cur' = [cur EXCEPT ![q] = 0]
       /\ curLive' = [curLive EXCEPT ![q] = FALSE]
       /\ outc' = SettleOutc(q, m, applied)
       /\ IF leaves
          THEN /\ pc' = [pc EXCEPT ![q] = IF event = "cancelled"
                                          THEN "cancelled" ELSE "raised"]
               /\ unacked' = [u EXCEPT ![q] = @ \ SeqSet(ib)]
               /\ ready' = [ready EXCEPT ![q] = back \o ib \o @]
               /\ inbox' = [inbox EXCEPT ![q] = <<>>]
               /\ consumers' = consumers \ {q}
          ELSE /\ pc' = [pc EXCEPT ![q] = "waiting"]
               /\ unacked' = u
               /\ ready' = [ready EXCEPT ![q] = back \o @]
               /\ inbox' = [inbox EXCEPT ![q] = ib]
               /\ UNCHANGED consumers

\* a loop that starts the callback as a task of its own and does not wait for
\* it: the block is left, and the delivery acknowledged, at once
consume_receive_detached(q) ==
    /\ pc[q] = "waiting"
    /\ inbox[q] # <<>>
    /\ LET m == Head(inbox[q])
       IN /\ recv' = [recv EXCEPT ![q][m] = @ + 1]
          /\ cb' = [cb EXCEPT ![q][m] = "running"]
          /\ outc' = SettleOutc(q, m, "ack")
          /\ unacked' = SettleUnacked(unacked, q, m, "ack")
          /\ inbox' = [inbox EXCEPT ![q] = Tail(@)]
          /\ UNCHANGED <<pc, cur, curLive, ready, consumers>>
    /\ ret' = NoRet
    /\ UNCHANGED <<connection, channel, qos, opened, topology, store, autoAck>>

\* "async for message in queue_iter" yields the next delivery and the body
\* is decoded. A JSON body is passed to the callback; a body that is not
\* JSON raises inside the try block, before the callback is called.
consume_receive(q) ==
    /\ pc[q] = "waiting"
    /\ inbox[q] # <<>>
    /\ LET m == Head(inbox[q])
       IN /\ recv' = [recv EXCEPT ![q][m] = @ + 1]
          /\ IF store[m].body = "json"
             THEN /\ pc' = [pc EXCEPT ![q] = "callback"]
                  /\ cur' = [cur EXCEPT ![q] = m]
                  /\ curLive' = [curLive EXCEPT ![q] = TRUE]
                  /\ cb' = [cb EXCEPT ![q][m] = "running"]
                  /\ inbox' = [inbox EXCEPT ![q] = Tail(@)]
                  /\ UNCHANGED <<unacked, ready, outc, consumers>>
             ELSE LeaveBlock(q, m, "decode", TRUE, Tail(inbox[q]))
    /\ ret' = NoRet
    /\ UNCHANGED <<connection, channel, qos, opened, topology, store, autoAck>>

\* "await callback(body)" returns
callback_return(q) ==
    /\ pc[q] = "callback"
    /\ LeaveBlock(q, cur[q], "ok", curLive[q], inbox[q])
    /\ ret' = NoRet
    /\ UNCHANGED <<connection, channel, qos, opened, topology, store, autoAck, recv>>

\* "await callback(body)" raises an Exception
callback_raise(q) ==
    /\ pc[q] = "callback"
    /\ LeaveBlock(q, cur[q], "fail", curLive[q], inbox[q])
    /\ ret' = NoRet
    /\ UNCHANGED <<connection, channel, qos, opened, topology, store, autoAck, recv>>

\* The task running consume_messages is cancelled while the callback is in
\* flight, or while the loop waits for a delivery.
task_cancel(q) ==
    /\ \/ /\ pc[q] = "callback"
          /\ LeaveBlock(q, cur[q], "cancelled", curLive[q], inbox[q])
       \/ /\ pc[q] = "waiting"
          /\ pc' = [pc EXCEPT ![q] = "cancelled"]
          /\ unacked' = [unacked EXCEPT ![q] = @ \ SeqSet(inbox[q])]
          /\ ready' = [ready EXCEPT ![q] = inbox[q] \o @]
          /\ inbox' = [inbox EXCEPT ![q] = <<>>]
          /\ consumers' = consumers \ {q}
          /\ UNCHANGED <<cur, curLive, cb, outc>>
    /\ ret' = NoRet
    /\ UNCHANGED <<connection, channel, qos, opened, topology, store, autoAck, recv>>

\* The iterator of a loop that waits for a delivery ends when the channel was
\* closed by disconnect(): "async for" finishes and consume_messages returns.
\* (An iterator that keeps waiting on a closed channel never takes this step.)
iterator_closed(q) ==
    /\ pc[q] = "waiting"
    /\ channel = "closed"
    /\ pc' = [pc EXCEPT ![q] = "ended"]
    /\ ret' = NoRet
    /\ UNCHANGED <<connection, channel, qos, opened, topology, brokerq, autoAck, inbox,
                   cur, curLive, recv, outc, cb>>

\* ------------------------------------------------------------ specification
Next ==
    \/ \E reachable \in BOOLEAN : connect(reachable)
    \/ disconnect
    \/ channel_restore
    \/ \E n \in ExchangeNames, t \in ExchangeTypes, d \in BOOLEAN :
          declare_exchange(n, t, d)
    \/ \E q \in ConsumerQueues : declare_queue(q)
    \/ \E q \in ConsumerQueues, n \in ExchangeNames, key \in BindingKeys :
          bind_queue(q, n, key)
    \/ \E n \in ExchangeNames, key \in RoutingKeys, serializable \in BOOLEAN,
          net \in NetOutcomes : publish_message(n, key, serializable, net)
    \/ \E q \in ConsumerQueues : foreign_publish(q)
    \/ \E q \in ConsumerQueues, aa \in BOOLEAN : consume_messages(q, aa)
    \/ \E q \in ConsumerQueues : broker_dispatch(q)
    \/ \E q \in ConsumerQueues : consume_receive(q)
    \/ \E q \in ConsumerQueues : callback_return(q)
    \/ \E q \in ConsumerQueues : callback_raise(q)
    \/ \E q \in ConsumerQueues : task_cancel(q)
    \/ \E q \in ConsumerQueues : iterator_closed(q)

Spec == Init /\ [][Next]_vars

\* The broker dispatches to a consumer whose prefetch window has room, and
\* the event loop resumes a consume loop whose iterator holds a delivery or
\* has ended. Nothing makes a callback return.
FairSpec ==
    /\ Spec
    /\ \A q \in ConsumerQueues :
          /\ WF_vars(broker_dispatch(q))
          /\ WF_vars(consume_receive(q))
          /\ WF_vars(iterator_closed(q))

\* The manager used with exchanges of the default type and durability only
\* (the "books" and "orders" exchanges of the programs): no declaration
\* conflicts, so a channel goes down by a transport drop or by disconnect().
TopicNext ==
    \/ \E reachable \in BOOLEAN : connect(reachable)
    \/ disconnect
    \/ channel_restore
    \/ \E n \in ExchangeNames :
          declare_exchange(n, DefaultExchangeType, DefaultDurable)
    \/ \E q \in ConsumerQueues : declare_queue(q)
    \/ \E q \in ConsumerQueues, n \in ExchangeNames, key \in BindingKeys :
          bind_queue(q, n, key)
    \/ \E n \in ExchangeNames, key \in RoutingKeys, serializable \in BOOLEAN,
          net \in NetOutcomes : publish_message(n, key, serializable, net)
    \/ \E q \in ConsumerQueues, aa \in BOOLEAN : consume_messages(q, aa)
    \/ \E q \in ConsumerQueues : broker_dispatch(q)
    \/ \E q \in ConsumerQueues : consume_receive(q)
    \/ \E q \in ConsumerQueues : callback_return(q)
    \/ \E q \in ConsumerQueues : callback_raise(q)
    \/ \E q \in ConsumerQueues : task_cancel(q)
    \/ \E q \in ConsumerQueues : iterator_closed(q)

TopicSpec == Init /\ [][TopicNext]_vars

\* TopicSpec with the scheduling of FairSpec and with callbacks that come to
\* an end: the event loop resumes a callback that is able to return.
LiveSpec ==
    /\ TopicSpec
    /\ \A q \in ConsumerQueues :
          /\ WF_vars(broker_dispatch(q))
          /\ WF_vars(consume_receive(q))
          /\ WF_vars(iterator_closed(q))
          /\ WF_vars(callback_return(q))

\* The channel a consume loop works on: declare_queue and the iterator use
\* self.channel, the one channel connect() opened.
LoopChannel(q) == "self.channel"

\* ------------------------------------------------------- subscriber program
\* subscriber.py: main() connects, declares the exchanges one after the
\* other, starts one task per entry of SUBSCRIBERS and waits for them; each
\* task runs start_subscriber: bind_queue, then consume_messages. The tasks
\* share the manager and run interleaved at every await. main()'s position
\* is read off the state: it has connected when the connection is set, and
\* it has declared an exchange when the broker has it.
MainDeclares == <<"books", "notifications">>

TasksStarted == \A i \in 1..Len(MainDeclares) : exchanges[MainDeclares[i]] # NoExchange

SubOf(q) == CHOOSE s \in Subscribers : s.queue = q

\* await manager.connect(), the first step of main()
main_connect(reachable) ==
    /\ ret = NoRet
    /\ connect(reachable)

\* await manager.declare_exchange(name, type), in the order of the program
main_declare_exchange(i) ==
    /\ connection = "open"
    /\ \A j \in 1..(i - 1) : exchanges[MainDeclares[j]] # NoExchange
    /\ exchanges[MainDeclares[i]] = NoExchange
    /\ declare_exchange(MainDeclares[i], MainExchanges[MainDeclares[i]],
                        DefaultDurable)

\* start_subscriber, in bind_queue: queue = await self.declare_queue(name)
start_declare_queue(q) ==
    /\ TasksStarted
    /\ pc[q] = "idle"
    /\ channel # "broken"
    /\ LET st == QueueStatus
       IN /\ ret' = Ret("declare_queue", st)
          /\ queues' = IF st = "ok" THEN queues \cup {q} ELSE queues
          /\ pc' = [pc EXCEPT ![q] = IF st = "ok" THEN "declared_queue"
                                     ELSE "raised"]
    /\ UNCHANGED <<connection, channel, qos, opened, exchanges, bindings, brokerq,
                   autoAck, inbox, cur, curLive, recv, outc, cb>>

\* in bind_queue: exchange = await self.declare_exchange(exchange_name)
start_declare_exchange(q) ==
    /\ pc[q] = "declared_queue"
    /\ channel # "broken"
    /\ LET n == SubOf(q).exchange
           st == DeclareStatus(n, DefaultExchangeType, DefaultDurable)
       IN /\ ret' = [Ret("declare_exchange", st) EXCEPT !.exchange = n]
          /\ exchanges' = IF st = "ok"
                          THEN Declared(n, DefaultExchangeType, DefaultDurable)
                          ELSE exchanges
          /\ pc' = [pc EXCEPT ![q] = IF st = "ok" THEN "declared_exchange"
                                     ELSE "raised"]
          /\ IF st = "TopologyConflict"
             THEN channel' = "broken" /\ ChannelDown
             ELSE UNCHANGED <<channel, ready, unacked, consumers, inbox, curLive>>
    /\ UNCHANGED <<connection, qos, opened, queues, bindings, store, autoAck, cur, recv,
                   outc, cb>>

\* in bind_queue: await queue.bind(exchange, routing_key=routing_key)
start_bind(q) ==
    /\ pc[q] = "declared_exchange"
    /\ channel # "broken"
    /\ LET st == QueueStatus
       IN /\ ret' = Ret("bind_queue", st)
          /\ bindings' = IF st = "ok"
                         THEN bindings \cup
                              {<<q, SubOf(q).exchange, SubOf(q).routing_key>>}
                         ELSE bindings
          /\ pc' = [pc EXCEPT ![q] = IF st = "ok" THEN "bound" ELSE "raised"]
    /\ UNCHANGED <<connection, channel, qos, opened, exchanges, queues, brokerq, autoAck,
                   inbox, cur, curLive, recv, outc, cb>>

\* await manager.consume_messages(queue_name, callback)
start_consume(q) ==
    /\ pc[q] = "bound"
    /\ consume_messages(q, FALSE)

\* The publisher application, a process with a manager of its own, publishes
\* an event with publish_message, which gets through to an exchange that
\* agrees with the declaration publish_message makes.
producer_publish(n, key) ==
    /\ exchanges[n] = [type |-> DefaultExchangeType, durable |-> DefaultDurable]
    /\ Len(store) < MaxMsgs
    /\ store' = Append(store, [body |-> "json"])
    /\ ready' = Routed(ready, n, key, Len(store) + 1)
    /\ ret' = NoRet
    /\ UNCHANGED <<connection, channel, qos, opened, topology, unacked, consumers,
                   loops>>

\* a main() without the finally clause: disconnect() only when no task failed
main_disconnect_on_clean_exit ==
    /\ connection # "closed"
    /\ \A q \in Queues : pc[q] # "raised"
    /\ disconnect

\* finally: await manager.disconnect(), once, whenever main() is left
main_disconnect ==
    /\ connection # "closed"
    /\ disconnect

\* asyncio.run cancels the tasks that are left when main() has returned
main_exit_cancel(q) ==
    /\ connection = "closed"
    /\ task_cancel(q)

SubscriberNext ==
    \/ \E reachable \in BOOLEAN : main_connect(reachable)
    \/ \E i \in 1..Len(MainDeclares) : main_declare_exchange(i)
    \/ \E q \in Queues : start_declare_queue(q)
    \/ \E q \in Queues : start_declare_exchange(q)
    \/ \E q \in Queues : start_bind(q)
    \/ \E q \in Queues : start_consume(q)
    \/ \E n \in ExchangeNames, key \in RoutingKeys : producer_publish(n, key)
    \/ \E q \in Queues : broker_dispatch(q)
    \/ \E q \in Queues : consume_receive(q)
    \/ \E q \in Queues : callback_return(q)
    \/ \E q \in Queues : callback_raise(q)
    \/ channel_restore
    \/ main_disconnect
    \/ \E q \in Queues : main_exit_cancel(q)
    \/ \E q \in Queues : iterator_closed(q)

SubscriberSpec == Init /\ [][SubscriberNext]_vars

\* The broker dispatches to every consumer whose window has room and the
\* event loop resumes every loop whose iterator holds a delivery. Nothing
\* makes a callback return.
FairSubscriberSpec ==
    /\ SubscriberSpec
    /\ \A q \in Queues :
          WF_vars(broker_dispatch(q)) /\ WF_vars(consume_receive(q))

\* gather passes the first error of a task on to main(), whose finally clause
\* runs; when main() has returned, asyncio.run cancels the tasks that remain.
FairMainSpec ==
    /\ FairSubscriberSpec
    /\ WF_vars((\E q \in Queues : pc[q] = "raised") /\ main_disconnect)
    /\ \A q \in Queues : WF_vars(main_exit_cancel(q))

\* ------------------------------------------------------------------ claims
Last(s) == s[Len(s)]
Mismatch(n, t, d) ==
    exchanges[n] # NoExchange /\ exchanges[n] # [type |-> t, durable |-> d]

\* C1: with auto_ack=false, a delivery whose callback returned without
\* raising has been acknowledged by the loop.
C1_ReturnAcks ==
    \A q \in ConsumerQueues, m \in MsgIds :
        (~autoAck[q] /\ cb[q][m] = "ok")
            => (outc[q][m] # <<>> /\ Last(outc[q][m]) = "ack")

\* C2: with the default configuration, the outcome applied to a delivery
\* whose callback raised is reject-without-requeue, never ack or requeue.
C2_FailureRejects ==
    \A q \in ConsumerQueues, m \in MsgIds :
        (~autoAck[q] /\ cb[q][m] = "fail" /\ outc[q][m] # <<>>)
            => Last(outc[q][m]) = "reject"

\* C3: every delivery the loop received has exactly one outcome applied once
\* the loop has moved on or has exited; the delivery still inside the
\* process block has none yet; no delivery ever has two.
C3_ExactlyOneOutcome ==
    \A q \in ConsumerQueues, m \in MsgIds :
        Len(outc[q][m]) =
            IF pc[q] = "callback" /\ cur[q] = m THEN recv[q][m] - 1
            ELSE recv[q][m]

\* C5: once the callback has raised for a message, the message is not
\* dispatched to the queue's consumer again and the loop does not receive it
\* again; while the loop runs, the message is not in the queue any more.
C5_FailedNeverRedelivered ==
    [][\A q \in ConsumerQueues, m \in MsgIds :
          cb[q][m] = "fail" =>
             /\ recv'[q][m] = recv[q][m]
             /\ m \in unacked'[q] => m \in unacked[q]
             /\ pc[q] \in {"waiting", "callback"} =>
                   m \notin SeqSet(ready[q]) \cup unacked[q]]_vars

C5_Witness ==
    \E q \in ConsumerQueues, m1 \in MsgIds, m2 \in MsgIds :
        /\ m1 < m2 /\ ~autoAck[q]
        /\ cb[q][m1] = "fail" /\ recv[q][m1] = 1
        /\ cb[q][m2] = "ok" /\ pc[q] = "waiting"

\* C6: the consumer never holds more than PrefetchCount unsettled
\* deliveries: not at the broker, and not in the client (the iterator's
\* buffer plus the delivery whose callback is in flight).
C6_PrefetchBound ==
    \A q \in Queues :
        /\ Cardinality(unacked[q]) <= PrefetchCount
        /\ SeqSet(inbox[q]) \subseteq unacked[q]
        /\ curLive[q] => cur[q] \in unacked[q]
        /\ Len(inbox[q]) + (IF curLive[q] THEN 1 ELSE 0) <= PrefetchCount

\* a callback is in flight, the consumer is registered on an open channel
\* and another message waits in the queue
C6_Witness ==
    \E q \in ConsumerQueues :
        /\ pc[q] = "callback" /\ curLive[q]
        /\ q \in consumers /\ channel = "open"
        /\ ready[q] # <<>>

\* C7: a loop started with auto_ack=true applies no ack and no reject to any
\* delivery.
C7_AutoAckSkips ==
    \A q \in ConsumerQueues, m \in MsgIds : autoAck[q] => outc[q][m] = <<>>

\* C8 as stated: publish_message returns True exactly when one copy went to
\* the broker, and a call that raised handed over none.
C8_SuccessIffHanded ==
    ret.op = "publish_message" =>
        /\ ret.err = "ok" <=> ret.handed = 1
        /\ ret.handed <= 1

\* C8 as amended: a publish_message step adds to the broker exactly the
\* copies it reports, never more than one; it returns True only with one
\* copy handed over; a call that raised handed over none unless it raised
\* because the connection was lost while the publish was in flight.
C8_PublishOutcome ==
    [][ret'.op = "publish_message" =>
          /\ Len(store') = Len(store) + ret'.handed
          /\ ret'.handed <= 1
          /\ ret'.err = "ok" => ret'.handed = 1
          /\ ret'.err \notin {"ok", "ConnectionLost"} => ret'.handed = 0]_vars

C8_Witness ==
    /\ ret.op = "publish_message"
    /\ ret.err = "ConnectionLost"
    /\ ret.handed = 1
    /\ Len(store) = 1

\* C9: publish_message to a declared fanout exchange on an open channel,
\* with a serializable body the broker confirms, succeeds and puts the
\* message into every queue bound to the exchange, whatever the routing key.
C9_FanoutPublish ==
    [][\A n \in ExchangeNames, key \in RoutingKeys :
          (/\ channel = "open"
           /\ exchanges[n].type = "fanout"
           /\ publish_message(n, key, TRUE, "confirm"))
          => /\ ret'.err = "ok"
             /\ \A b \in bindings :
                   b[2] = n => Len(ready'[b[1]]) = Len(ready[b[1]]) + 1]_vars

\* C10: on an open channel, declare_exchange of a name with the parameters
\* it already has returns the handle and changes no exchange, queue or
\* binding; a declaration of an existing name with other parameters raises
\* the conflict to the caller of declare_exchange, bind_queue or
\* publish_message; and no step changes an existing exchange.
C10_DeclareIdempotentOrConflict ==
    [][/\ ret'.op = "declare_exchange" =>
             \A n \in ExchangeNames, t \in ExchangeTypes, d \in BOOLEAN :
                (channel = "open" /\ declare_exchange(n, t, d)) =>
                    /\ exchanges[n] = [type |-> t, durable |-> d]
                          => ret'.err = "ok" /\ UNCHANGED topology
                    /\ Mismatch(n, t, d) => ret'.err = "TopologyConflict"
       /\ ret'.op = "bind_queue" =>
             \A n \in ExchangeNames, q \in Queues, key \in BindingKeys :
                (/\ channel = "open"
                 /\ Mismatch(n, DefaultExchangeType, DefaultDurable)
                 /\ bind_queue(q, n, key))
                => ret'.err = "TopologyConflict" /\ bindings' = bindings
       /\ ret'.op = "publish_message" =>
             \A n \in ExchangeNames, key \in RoutingKeys,
                serializable \in BOOLEAN, net \in NetOutcomes :
                (/\ channel = "open"
                 /\ Mismatch(n, DefaultExchangeType, DefaultDurable)
                 /\ publish_message(n, key, serializable, net))
                => ret'.err = "TopologyConflict" /\ ret'.handed = 0
       /\ \A n \in ExchangeNames :
             exchanges[n] # NoExchange => exchanges'[n] = exchanges[n]]_vars

\* bind_queue has just raised the conflict on an exchange declared fanout
C10_Witness ==
    /\ ret.op = "bind_queue"
    /\ ret.err = "TopologyConflict"
    /\ \E n \in ExchangeNames : exchanges[n].type = "fanout"
    /\ bindings = {}

\* C4 as stated: once a callback has raised, every later delivery the loop
\* receives is passed to the callback.
PassedToCallback(q, m) == cb[q][m] \in {"running", "ok", "fail", "cancelled"}

C4_NextPassedToCallback ==
    \A q \in ConsumerQueues, m1 \in MsgIds, m2 \in MsgIds :
        (m1 < m2 /\ cb[q][m1] = "fail" /\ recv[q][m2] > 0)
            => PassedToCallback(q, m2)

\* m is the delivery the running loop of q gets next, after a callback of
\* the loop has raised
NextAfterFailure(q, m) ==
    /\ \E m1 \in MsgIds : cb[q][m1] = "fail"
    /\ pc[q] = "waiting" /\ channel = "open" /\ q \in consumers
    /\ inbox[q] \o ready[q] # <<>>
    /\ m = Head(inbox[q] \o ready[q])

LoopStopped(q) ==
    pc[q] \in {"cancelled", "raised", "ended"} \/ channel # "open"

\* C4 as amended: a callback that raises for a delivery whose channel is
\* still open leaves the delivery settled and the loop waiting for the next
\* delivery; and unless the task is cancelled or the channel goes away, the
\* next delivery of the queue is eventually received, and it is passed to
\* the callback when its body is JSON.
C4_LoopSurvivesFailure ==
    /\ [][\A q \in ConsumerQueues :
             (callback_raise(q) /\ curLive[q]) =>
                 /\ pc'[q] = "waiting"
                 /\ cur[q] \notin unacked'[q]
                 /\ q \in consumers']_vars
    /\ \A q \in ConsumerQueues, m \in MsgIds :
          NextAfterFailure(q, m) ~>
             \/ LoopStopped(q)
             \/ /\ recv[q][m] > 0
                /\ store[m].body = "json" => PassedToCallback(q, m)

\* after a callback raised for one delivery, a later delivery is in the
\* callback
C4_Witness ==
    \E q \in ConsumerQueues, m1 \in MsgIds, m2 \in MsgIds :
        /\ m1 < m2 /\ cb[q][m1] = "fail" /\ outc[q][m1] # <<>>
        /\ pc[q] = "callback" /\ cur[q] = m2 /\ curLive[q]

\* C11: a publish_message call that follows a successful publish_message to
\* the same exchange name sends no exchange declaration to the broker.
C11_DeclaresOnlyOnce ==
    [][\A n \in ExchangeNames, key \in RoutingKeys, serializable \in BOOLEAN,
          net \in NetOutcomes :
          (/\ ret.op = "publish_message" /\ ret.err = "ok" /\ ret.exchange = n
           /\ publish_message(n, key, serializable, net))
          => ret'.declares = 0]_vars

\* C12: the loop of a queue takes the deliveries in the order the broker
\* dispatched them: the one it passes on is the oldest the iterator holds,
\* and it comes later in the queue than every delivery the loop received
\* before; and a callback starts only when no callback of the queue is in
\* flight, so at most one is running at any time.
C12_InOrderOneAtATime ==
    /\ [](\A q \in ConsumerQueues, m \in MsgIds :
             cb[q][m] = "running" => (pc[q] = "callback" /\ cur[q] = m))
    /\ [][\A q \in ConsumerQueues :
             /\ broker_dispatch(q) => inbox'[q] = Append(inbox[q], Head(ready[q]))
             /\ consume_receive(q) =>
                   /\ cur[q] = 0
                   /\ \A m \in MsgIds : cb[q][m] # "running"
                   /\ recv'[q][Head(inbox[q])] = recv[q][Head(inbox[q])] + 1
                   /\ \A m \in MsgIds : recv[q][m] > 0 => m < Head(inbox[q])
                   /\ cur'[q] # 0 => cur'[q] = Head(inbox[q])]_vars

\* the callback of a second delivery is running after the callback of the
\* first one has returned
C12_Witness ==
    \E q \in ConsumerQueues, m1 \in MsgIds, m2 \in MsgIds :
        /\ m1 < m2 /\ cb[q][m1] = "ok" /\ recv[q][m1] = 1
        /\ pc[q] = "callback" /\ cur[q] = m2 /\ cb[q][m2] = "running"

\* C13: a message published with a routing key that matches the binding of a
\* queue to a topic exchange is put into that queue once; the loop of the
\* queue never receives a message twice; and while the loop runs on an open
\* channel and callbacks come to an end, a JSON message waiting in the queue
\* is eventually received once and its body passed to the callback.
C13_TopicExactlyOnce ==
    /\ [](\A q \in ConsumerQueues, m \in MsgIds : recv[q][m] <= 1)
    /\ [][\A n \in ExchangeNames, key \in RoutingKeys, net \in NetOutcomes :
             (/\ channel = "open"
              /\ exchanges[n] = [type |-> "topic", durable |-> DefaultDurable]
              /\ publish_message(n, key, TRUE, net)
              /\ ret'.handed = 1)
             => \A q \in Queues :
                   LET was == IF ret'.err = "ok" THEN ready[q]
                              ELSE RequeueAll(ready)[q]
                   IN ready'[q] =
                         IF \E b \in bindings :
                               b[1] = q /\ b[2] = n /\ TopicMatch(b[3], key)
                         THEN Append(was, Len(store'))
                         ELSE was]_vars
    /\ \A q \in ConsumerQueues, m \in MsgIds :
          (/\ pc[q] \in {"waiting", "callback"}
           /\ m \in SeqSet(ready[q])
           /\ store[m].body = "json")
          ~> \/ LoopStopped(q)
             \/ recv[q][m] = 1 /\ PassedToCallback(q, m)

\* a message published to the topic exchange went through the callback of
\* the bound queue, once, and was acknowledged
C13_Witness ==
    \E q \in ConsumerQueues, m \in MsgIds :
        /\ m <= Len(store) /\ store[m].body = "json"
        /\ \E b \in bindings : b[1] = q /\ exchanges[b[2]].type = "topic"
        /\ recv[q][m] = 1 /\ cb[q][m] = "ok" /\ outc[q][m] = <<"ack">>
        /\ pc[q] = "waiting" /\ ready[q] = <<>> /\ unacked[q] = {}

\* The state of the connection as the manager's fields and the robust
\* connection show it; "Connecting" is the inside of the connect() step.
ConnState ==
    IF connection \in {"none", "closed"} THEN "Disconnected"
    ELSE IF channel = "broken" THEN "Reconnecting"
    ELSE "Connected"

C15_PublishAfterRecovery ==
    [][/\ channel_restore =>
             (channel' = "open" /\ connection' = "open" /\ qos' = PrefetchCount)
       /\ \A n \in ExchangeNames, key \in RoutingKeys :
             (/\ channel = "open"
              /\ ~Mismatch(n, DefaultExchangeType, DefaultDurable)
              /\ publish_message(n, key, TRUE, "confirm"))
             => (ret'.err = "ok" /\ ret'.handed = 1 /\ channel' = "open")]_vars

\* A publish has just returned True on a channel that went down under a
\* callback in flight and was restored. Under TopicSpec no declaration
\* conflicts, so the channel went down by a transport drop.
C15_Witness ==
    /\ ret.op = "publish_message" /\ ret.err = "ok" /\ ret.handed = 1
    /\ channel = "open"
    /\ \E q \in ConsumerQueues : pc[q] = "callback" /\ ~curLive[q]
    /\ \A n \in ExchangeNames : ~Mismatch(n, DefaultExchangeType, DefaultDurable)

\* C16: disconnect() on a manager that is already disconnected (it never
\* connected, or disconnect() was called before) returns without an error
\* and changes nothing: not the manager's fields, not the broker, not a loop.
C16_DisconnectIdempotent ==
    [][(connection \in {"none", "closed"} /\ ret'.op = "disconnect") =>
          /\ ret'.err = "ok"
          /\ UNCHANGED <<connection, channel, qos, topology, brokerq, loops>>]_vars

\* disconnect() has returned on a manager that never connected
C16_Witness ==
    /\ connection = "none" /\ channel = "none"
    /\ ret.op = "disconnect" /\ ret.err = "ok"

\* C17: once disconnect() has closed the connection, every consume loop that
\* is still active eventually exits.
C17_DisconnectEndsLoops ==
    \A q \in ConsumerQueues :
        (connection = "closed" /\ pc[q] \in {"waiting", "callback"})
            ~> pc[q] \notin {"waiting", "callback"}

Active(q) == pc[q] \in {"waiting", "callback"}

\* C18: two consume loops that run at the same time work on different
\* channels.
C18_ChannelPerLoop ==
    \A q1 \in Queues, q2 \in Queues :
        (q1 # q2 /\ Active(q1) /\ Active(q2))
            => LoopChannel(q1) # LoopChannel(q2)

\* C19: while the callback of one queue is in flight, for however long, a
\* delivery that is next for the running loop of another queue is eventually
\* received by that loop, unless that loop stops or the channel goes away.
C19_SlowCallbackIsolated ==
    \A q \in Queues, m \in MsgIds :
        (/\ \E q2 \in Queues \ {q} : pc[q2] = "callback"
         /\ pc[q] = "waiting" /\ channel = "open" /\ q \in consumers
         /\ inbox[q] \o ready[q] # <<>>
         /\ m = Head(inbox[q] \o ready[q]))
        ~> (recv[q][m] > 0 \/ LoopStopped(q))

\* the callbacks of two queues are in flight at the same time, both on live
\* deliveries: one of them was dispatched and received while the other
\* callback was running
C19_Witness ==
    \E q1 \in Queues, q2 \in Queues :
        /\ q1 # q2
        /\ pc[q1] = "callback" /\ curLive[q1]
        /\ pc[q2] = "callback" /\ curLive[q2]
        /\ channel = "open"

\* C20: whatever the interleaving of the tasks, a task's declaration of a
\* queue or of an exchange that exists with the same parameters (declared by
\* main() or by another task) returns without a conflict and leaves the one
\* definition as it is; a task gets a conflict only for a name that exists
\* with other parameters; and no step changes or doubles a definition.
C20_ConcurrentDeclarations ==
    [][/\ \A q \in Queues :
             /\ start_declare_queue(q) =>
                   (channel = "open" =>
                       (ret'.err = "ok" /\ queues' = queues \cup {q}
                        /\ UNCHANGED <<exchanges, bindings, channel>>))
             /\ start_declare_exchange(q) =>
                   LET n == SubOf(q).exchange
                   IN /\ (/\ channel = "open"
                          /\ exchanges[n] = [type |-> DefaultExchangeType,
                                             durable |-> DefaultDurable])
                         => (ret'.err = "ok" /\ pc'[q] = "declared_exchange"
                             /\ UNCHANGED <<topology, channel>>)
                      /\ ret'.err = "TopologyConflict" =>
                            Mismatch(n, DefaultExchangeType, DefaultDurable)
       /\ \A n \in ExchangeNames :
             exchanges[n] # NoExchange => exchanges'[n] = exchanges[n]
       /\ queues \subseteq queues']_vars

\* the two tasks of the "books" exchange have both declared it again, after
\* main(), and both have bound their queues
C20_Witness ==
    /\ pc["all_books_queue"] \in {"bound", "waiting", "callback"}
    /\ pc["book_created_queue"] \in {"bound", "waiting", "callback"}
    /\ exchanges["books"] = [type |-> "topic", durable |-> TRUE]
    /\ \A q \in {"all_books_queue", "book_created_queue"} :
          \E b \in bindings : b[1] = q /\ b[2] = "books"

TopicPatterns ==
    {<<"book", "*">>, <<"book", "created">>, <<"book", "#">>, <<"#">>,
     <<"*", "created">>}
TopicKeys ==
    {<<"book", "created">>, <<"book", "updated">>,
     <<"book", "created", "extra">>, <<"author", "created">>, <<"book">>}

\* one manager binds all_books_queue to the books exchange with any of the
\* patterns and publishes with any of the keys
RouteNext ==
    \/ \E r \in BOOLEAN : connect(r)
    \/ declare_exchange("books", DefaultExchangeType, DefaultDurable)
    \/ \E q \in ConsumerQueues, pat \in TopicPatterns :
          bind_queue(q, "books", pat)
    \/ \E key \in TopicKeys : publish_message("books", key, TRUE, "confirm")

RouteSpec == Init /\ [][RouteNext]_vars

\* the rule in words: the key is cut into consecutive runs of segments, one
\* run per word of the pattern; "#" takes a run of any length, "*" a run of
\* one segment, any other word a run of one segment equal to it
Matches(pat, key) ==
    \E cut \in [1..(Len(pat) + 1) -> 0..Len(key)] :
       /\ cut[1] = 0
       /\ cut[Len(pat) + 1] = Len(key)
       /\ \A i \in 1..Len(pat) :
             LET w == cut[i + 1] - cut[i]
             IN IF pat[i] = "#" THEN w >= 0
                ELSE /\ w = 1
                     /\ pat[i] = "*" \/ key[cut[i] + 1] = pat[i]

JsonTypes == {"str", "int", "float", "bool", "None", "list", "dict"}

\* request.message of /publish: a dict parsed from the request's JSON
GenericMessage == [title |-> "str", price |-> "float"]
\* model_dump() of the event models: timestamp stays a datetime object
BookEventDump ==
    [event_type |-> "str", book_id |-> "str", title |-> "str",
     author |-> "str", price |-> "float", timestamp |-> "datetime"]
OrderEventDump ==
    [event_type |-> "str", order_id |-> "str", user_id |-> "str",
     books |-> "list", total_amount |-> "float", timestamp |-> "datetime"]
NotificationEventDump ==
    [event_type |-> "str", recipient |-> "str", subject |-> "str",
     message |-> "str", timestamp |-> "datetime"]

ProducerBodies ==
    {GenericMessage, BookEventDump, OrderEventDump, NotificationEventDump}

\* json.dumps with the default encoder takes the JSON types only
JsonSerializable(b) == \A f \in DOMAIN b : b[f] \in JsonTypes
json_dumps(b) == IF JsonSerializable(b) THEN [text |-> b] ELSE "TypeError"
json_loads(t) == t.text

\* C23: for every body the producers hand to publish_message, the call on a
\* working channel succeeds and what json.loads gives the callback equals
\* the body that was published.
C23_RoundTrip ==
    [][ret'.op = "publish_message" =>
          \A b \in ProducerBodies, n \in ExchangeNames, key \in RoutingKeys :
             (/\ channel = "open"
              /\ ~Mismatch(n, DefaultExchangeType, DefaultDurable)
              /\ publish_message(n, key, JsonSerializable(b), "confirm")) =>
                /\ ret'.err = "ok"
                /\ json_loads(json_dumps(b)) = b]_vars

\* C24: a declare_exchange, declare_queue, bind_queue or publish_message call
\* on a manager that never connected or was disconnected fails with the
\* not-connected error of the taxonomy, a PublishError for publish_message,
\* and changes neither the manager nor the topology.
C24_TypedNotConnected ==
    [][(/\ channel \in {"none", "closed"}
        /\ ret'.op \in {"declare_exchange", "declare_queue", "bind_queue",
                        "publish_message"}) =>
          /\ ret'.err = IF ret'.op = "publish_message" THEN "PublishError"
                        ELSE "NotConnected"
          /\ UNCHANGED <<connection, channel, qos, topology>>]_vars

\* ------------------------------------------------- connect and disconnect
\* connect() as any caller may use it, on a manager in any state, with the
\* places where it can fail: connect_robust (line 21), connection.channel()
\* (line 22), channel.set_qos (line 24). Each assignment that was reached
\* stays; nothing is caught and nothing is closed. A connection or channel
\* the fields held before is overwritten, not closed.
ConnectOutcomes == {"ok", "unreachable", "channel_fails", "qos_fails"}

connect_call(outcome) ==
    /\ opened.connections < MaxConnects
    /\ channel # "broken"
    /\ connection' = IF outcome = "unreachable" THEN connection ELSE "open"
    /\ channel' = IF outcome \in {"ok", "qos_fails"} THEN "open" ELSE channel
    /\ qos' = IF outcome = "ok" THEN PrefetchCount
              ELSE IF outcome = "qos_fails" THEN 0
              ELSE qos
    /\ opened' =
          [connections |-> opened.connections
                           + (IF outcome = "unreachable" THEN 0 ELSE 1),
           channels |-> opened.channels
                        + (IF outcome \in {"ok", "qos_fails"} THEN 1 ELSE 0)]
    /\ ret' = Ret("connect",
                  IF outcome = "ok" THEN "ok"
                  ELSE IF outcome = "unreachable" THEN "ConnectionError"
                  ELSE "AMQPError")
    /\ UNCHANGED <<topology, brokerq, loops>>

\* GET /health: "connected" if rabbitmq_manager.connection else "disconnected"
\* (the truth value of the field: any connection object, open or closed)
health_check == IF connection # "none" THEN "connected" ELSE "disconnected"

ConnectNext ==
    \/ \E outcome \in ConnectOutcomes : connect_call(outcome)
    \/ disconnect
    \/ \E n \in ExchangeNames :
          declare_exchange(n, DefaultExchangeType, DefaultDurable)
    \/ \E n \in ExchangeNames, key \in RoutingKeys :
          publish_message(n, key, TRUE, "confirm")

ConnectSpec == Init /\ [][ConnectNext]_vars

\* C25: a connect() on a fresh manager that fails, whether the broker is
\* unreachable or opening the channel or setting the prefetch limit fails,
\* raises ConnectionError and leaves the manager holding neither a
\* connection nor a channel.
C25_FailedConnectLeavesNothing ==
    [][(/\ connection = "none" /\ channel = "none"
        /\ ret'.op = "connect" /\ ret'.err # "ok") =>
          /\ ret'.err = "ConnectionError"
          /\ connection' = "none"
          /\ channel' = "none"]_vars

\* C26: whatever connect() and disconnect() calls were made, the manager has
\* at most one connection and one channel open, and exactly one of each
\* when it is connected.
C26_AtMostOneSession ==
    /\ opened.connections <= 1
    /\ opened.channels <= 1
    /\ (connection = "open" /\ channel = "open") =>
          (opened.connections = 1 /\ opened.channels = 1)

\* C30: /health says "connected" exactly when the manager is connected, and
\* "disconnected" before connect() and after disconnect().
C30_HealthTracksConnection ==
    health_check = "connected" <=> connection = "open"

\* C27: once main has declared the exchanges, every subscriber gets through
\* the steps of bind_queue on the working channel without an error (and goes
\* on to consume).
C27_AllSubscribersBind ==
    [][\A q \in Queues :
          (/\ connection = "open" /\ channel = "open"
           /\ \/ start_declare_queue(q)
              \/ start_declare_exchange(q)
              \/ start_bind(q)) => pc'[q] # "raised"]_vars

C29_UndecodableSkipped ==
    /\ [](\A q \in ConsumerQueues, m \in 1..Len(store) :
             store[m].body = "bad" => ~PassedToCallback(q, m))
    /\ [][\A q \in ConsumerQueues :
             (/\ consume_receive(q)
              /\ store[Head(inbox[q])].body = "bad") =>
                LET m == Head(inbox[q])
                IN /\ cb'[q][m] = "decode"
                   /\ Len(outc'[q][m]) = Len(outc[q][m]) + 1
                   /\ m \notin unacked'[q]
                   /\ pc'[q] = "waiting"
                   /\ q \in consumers'
                   /\ inbox'[q] = Tail(inbox[q])]_vars

\* the loop skipped a body that is not JSON and received the message after it
C29_Witness ==
    \E q \in ConsumerQueues, m1, m2 \in MsgIds :
       /\ m1 < m2
       /\ cb[q][m1] = "decode" /\ outc[q][m1] # <<>>
       /\ recv[q][m2] > 0
       /\ pc[q] \in {"waiting", "callback"}

====
